---------------------------- MODULE Spec2Model ----------------------------
(***************************************************************************)
(* A model of the TimeSeries container (timeseries.py) and of the          *)
(* LazyOperation deferred-computation node (lazy.py).                      *)
(*                                                                         *)
(* Stored values and the value given to __setitem__ are integers, so the   *)
(* backing array has one element type and a store converts nothing.        *)
(* Interpolated values are exact rationals [n, d].                         *)
(***************************************************************************)
EXTENDS Integers, Sequences, FiniteSets

(***************************************************************************)
(* Bounds of the model.                                                    *)
(***************************************************************************)
MaxLen == 3
MaxTime == 1
MaxArgs == 2
MaxEvals == 2

\* Stored times are the even numbers 0, 2, .., 2*MaxTime, so that the odd
\* query times fall strictly between two stored times.
Times == {2 * k : k \in 0..MaxTime}
Values == {0, 1}
\* The keys handed to ts[time], ts[time] = value and time in ts: every
\* time that can be stored, and one that never is.
Keys == Times \cup {0 - 1}
\* The times handed to interpolate: from just below the least time that can
\* be stored to just above the greatest.
QueryTimes == (0 - 1)..(2 * MaxTime + 1)

SeqsUpTo(S, n) == UNION {[1..k -> S] : k \in 0..n}
TimeSeqs == SeqsUpTo(Times, MaxLen)
ValueSeqs == SeqsUpTo(Values, MaxLen)
\* The sequences of query times handed to interpolate: none, one, or one
\* followed by a time outside the stored range (as in test_interpolate).
QuerySeqs ==
    {<<>>} \cup {<<a>> : a \in QueryTimes}
           \cup {<<a, b>> : a \in QueryTimes, b \in {0 - 1, 2 * MaxTime + 1}}

VARIABLES
    built,       \* TRUE once TimeSeries.__init__ has returned
    _times,      \* self._times
    _values,     \* self._values
    ctor_len,    \* len(times) as given to the constructor
    last,        \* the last call on the container: its name, arguments and outcome
    pre_times,   \* self._times as it was when the last call started
    pre_values,  \* self._values as it was when the last call started
    query,       \* the times handed to the last call, when it was interpolate
    out_built,   \* TRUE when the last call returned a new container
    out_times,   \* _times of the container the last call returned
    out_values   \* _values of that container (rationals)

tsvars == <<built, _times, _values, ctor_len, last, pre_times, pre_values, query, out_built,
            out_times, out_values>>

VARIABLES
    nodes,       \* the LazyOperation objects: name -> [args, kwargs]
    nodes0,      \* the same objects as they were constructed
    calls,       \* name -> how many times the node's func has been invoked
    evals,       \* name -> how many times the caller has called eval() on the node
    lz           \* the caller's last eval(): the node, the outcome, the result

lzvars == <<nodes, nodes0, calls, evals, lz>>

vars == <<tsvars, lzvars>>

(***************************************************************************)
(* Exact rationals, for float(...) / float(...).                           *)
(***************************************************************************)
FromInt(x) == [n |-> x, d |-> 1]
RatDiv(a, b) == [n |-> a.n * b.d, d |-> a.d * b.n]
RatAdd(a, b) == [n |-> a.n * b.d + b.n * a.d, d |-> a.d * b.d]
RatEq(a, b) == a.n * b.d = b.n * a.d

(***************************************************************************)
(* TimeSeries.__init__                                                     *)
(***************************************************************************)
zeros(n) == [i \in 1..n |-> 0]

\* The constructor without its assertion.
init_unchecked(times, given, values) ==
    LET vals == IF given THEN values ELSE zeros(Len(times))
    IN  [status |-> "ok", times |-> times, values |-> vals]

\* times, values: the arguments; given = FALSE stands for values=None.
init(times, given, values) ==
    LET vals == IF given THEN values ELSE zeros(Len(times))
    IN  IF Len(times) # Len(vals)
        THEN [status |-> "AssertionError", times |-> <<>>, values |-> <<>>]
        ELSE [status |-> "ok", times |-> times, values |-> vals]

len(times) == Len(times)

(***************************************************************************)
(* np.where(self._times == time)[0]: the matching positions, ascending.    *)
(***************************************************************************)
where(times, time) ==
    SelectSeq([i \in 1..Len(times) |-> i], LAMBDA i : times[i] = time)

\* __getitem__ reading the last match instead of the first.
getitem_last(times, values, time) ==
    LET index == where(times, time)
    IN  IF Len(index) = 0
        THEN [status |-> "ValueError", ret |-> <<>>]
        ELSE [status |-> "ok", ret |-> <<values[index[Len(index)]]>>]

getitem(times, values, time) ==
    LET index == where(times, time)
    IN  IF Len(index) = 0
        THEN [status |-> "ValueError", ret |-> <<>>]
        ELSE [status |-> "ok", ret |-> <<values[index[1]]>>]

\* __setitem__ writing the last match only.
setitem_last(times, values, time, value) ==
    LET index == where(times, time)
    IN  IF Len(index) = 0
        THEN [status |-> "ValueError", values |-> values]
        ELSE [status |-> "ok",
              values |-> [values EXCEPT ![index[Len(index)]] = value]]

\* __setitem__ writing the first match only.
setitem_first(times, values, time, value) ==
    LET index == where(times, time)
    IN  IF Len(index) = 0
        THEN [status |-> "ValueError", values |-> values]
        ELSE [status |-> "ok", values |-> [values EXCEPT ![index[1]] = value]]

\* __setitem__ that stores at the front when the time is absent.
setitem_noraise(times, values, time, value) ==
    LET index == where(times, time)
        hit == {index[k] : k \in 1..Len(index)}
    IN  IF Len(index) = 0
        THEN [status |-> "ok",
              values |-> [i \in 1..Len(values) |-> IF i = 1 THEN value ELSE values[i]]]
        ELSE [status |-> "ok",
              values |-> [i \in 1..Len(values) |-> IF i \in hit THEN value ELSE values[i]]]

setitem(times, values, time, value) ==
    LET index == where(times, time)
        hit == {index[k] : k \in 1..Len(index)}
    IN  IF Len(index) = 0
        THEN [status |-> "ValueError", values |-> values]
        ELSE [status |-> "ok",
              values |-> [i \in 1..Len(values) |-> IF i \in hit THEN value ELSE values[i]]]

contains(times, time) == \E i \in 1..Len(times) : times[i] = time


(***************************************************************************)
(* np.searchsorted(self._times, time, side='right'): the binary search     *)
(* numpy runs, whatever the order of the array; positions count from 0.    *)
(***************************************************************************)
RECURSIVE binsearch_right(_, _, _, _)
binsearch_right(a, key, lo, hi) ==
    IF lo >= hi
    THEN lo
    ELSE LET mid == lo + ((hi - lo) \div 2)
         IN  IF key < a[mid + 1]
             THEN binsearch_right(a, key, lo, mid)
             ELSE binsearch_right(a, key, mid + 1, hi)

searchsorted(a, key) == binsearch_right(a, key, 0, Len(a))

(***************************************************************************)
(* One turn of the loop of TimeSeries.interpolate.                         *)
(***************************************************************************)
\* slope taken as val_delta / time_delta, then divided by as the code does.
interp_step_conventional_slope(times, values, time, right_index) ==
    LET right == right_index + 1
        left == right_index
        time_delta == times[right] - times[left]
        val_delta == values[right] - values[left]
    IN  IF val_delta = 0
        THEN [status |-> "ZeroDivisionError", val |-> FromInt(0)]
        ELSE LET slope == RatDiv(FromInt(val_delta), FromInt(time_delta))
                 step == RatDiv(FromInt(time - times[left]), slope)
             IN  [status |-> "ok", val |-> RatAdd(FromInt(values[left]), step)]

\* Lines 169-177: right_index is neither 0 nor len(self).
interp_step(times, values, time, right_index) ==
    LET right == right_index + 1
        left == right_index
        time_delta == times[right] - times[left]
        val_delta == values[right] - values[left]
    IN  IF val_delta = 0
        THEN [status |-> "ZeroDivisionError", val |-> FromInt(0)]
        ELSE LET slope == RatDiv(FromInt(time_delta), FromInt(val_delta))
                 step == RatDiv(FromInt(time - times[left]), slope)
             IN  [status |-> "ok", val |-> RatAdd(FromInt(values[left]), step)]

\* The two flat ends swapped.
interp_one_swapped(times, values, time) ==
    LET right_index == searchsorted(times, time)
    IN  IF right_index = len(times)
        THEN IF Len(values) = 0
             THEN [status |-> "IndexError", val |-> FromInt(0)]
             ELSE [status |-> "ok", val |-> FromInt(values[1])]
        ELSE IF right_index = 0
             THEN [status |-> "ok", val |-> FromInt(values[Len(values)])]
             ELSE interp_step(times, values, time, right_index)

interp_one(times, values, time) ==
    LET right_index == searchsorted(times, time)
    IN  IF right_index = len(times)
        THEN IF Len(values) = 0
             THEN [status |-> "IndexError", val |-> FromInt(0)]
             ELSE [status |-> "ok", val |-> FromInt(values[Len(values)])]
        ELSE IF right_index = 0
             THEN [status |-> "ok", val |-> FromInt(values[1])]
             ELSE interp_step(times, values, time, right_index)

\* The loop over the query times: the first failure ends the call.
RECURSIVE interp_loop(_, _, _, _, _)
interp_loop(times, values, qs, i, acc) ==
    IF i > Len(qs)
    THEN [status |-> "ok", vals |-> acc]
    ELSE LET r == interp_one(times, values, qs[i])
         IN  IF r.status # "ok"
             THEN [status |-> r.status, vals |-> <<>>]
             ELSE interp_loop(times, values, qs, i + 1, Append(acc, r.val))

\* TimeSeries.interpolate: the loop, then TimeSeries(times, values).
interpolate(times, values, qs) ==
    LET r == interp_loop(times, values, qs, 1, <<>>)
    IN  IF r.status # "ok"
        THEN [status |-> r.status, times |-> <<>>, values |-> <<>>]
        ELSE init(qs, TRUE, r.vals)

(***************************************************************************)
(* The calls on one container.                                             *)
(***************************************************************************)
\* after: for ts[time] called straight after ts[t] = v, that store's outcome
\* and what ts[time] gave before it (read off the values saved when it began).
NoSet == [status |-> "none", t |-> 0, v |-> 0, before |-> <<>>]

Call(op, status, t, v, ret, after) ==
    [op |-> op, status |-> status, t |-> t, v |-> v, ret |-> ret, after |-> after]

TSInit ==
    /\ built = FALSE
    /\ _times = <<>>
    /\ _values = <<>>
    /\ ctor_len = 0
    /\ last = Call("none", "ok", 0, 0, <<>>, NoSet)
    /\ pre_times = <<>>
    /\ pre_values = <<>>
    /\ query = <<>>
    /\ out_built = FALSE
    /\ out_times = <<>>
    /\ out_values = <<>>

\* A call other than interpolate hands back no container.
NoContainerReturned ==
    /\ query' = <<>>
    /\ out_built' = FALSE
    /\ out_times' = <<>>
    /\ out_values' = <<>>

\* TimeSeries(times, values) and TimeSeries(times). The call's record keeps
\* len(times) in t and len(values), after the default, in v.
Construct ==
    /\ ~built
    /\ last.op = "none"
    /\ \E times \in TimeSeqs, given \in BOOLEAN, values \in ValueSeqs :
         /\ (~given => values = <<>>)
         /\ LET r == init(times, given, values)
            IN  /\ built' = (r.status = "ok")
                /\ _times' = r.times
                /\ _values' = r.values
                /\ ctor_len' = Len(times)
                /\ last' = Call("init", r.status, Len(times),
                                IF given THEN Len(values) ELSE Len(times), <<>>, NoSet)
    /\ pre_times' = _times
    /\ pre_values' = _values
    /\ NoContainerReturned
    /\ UNCHANGED lzvars

\* len(ts)
Size ==
    /\ built
    /\ last' = Call("len", "ok", 0, 0, <<len(_times)>>, NoSet)
    /\ pre_times' = _times
    /\ pre_values' = _values
    /\ NoContainerReturned
    /\ UNCHANGED <<built, _times, _values, ctor_len, lzvars>>

\* ts[time]
Get ==
    /\ built
    /\ \E time \in Keys :
         LET r == getitem(_times, _values, time)
         IN  last' = Call("getitem", r.status, time, 0, r.ret,
                          IF last.op = "setitem"
                          THEN [status |-> last.status, t |-> last.t, v |-> last.v,
                                before |-> getitem(_times, pre_values, time).ret]
                          ELSE NoSet)
    /\ pre_times' = _times
    /\ pre_values' = _values
    /\ NoContainerReturned
    /\ UNCHANGED <<built, _times, _values, ctor_len, lzvars>>

\* ts[time] = value
Set ==
    /\ built
    /\ \E time \in Keys, value \in Values :
         LET r == setitem(_times, _values, time, value)
         IN  /\ _values' = r.values
             /\ last' = Call("setitem", r.status, time, value, <<>>, NoSet)
    /\ pre_times' = _times
    /\ pre_values' = _values
    /\ NoContainerReturned
    /\ UNCHANGED <<built, _times, ctor_len, lzvars>>

\* time in ts
Contains ==
    /\ built
    /\ \E time \in Keys :
         last' = Call("contains", "ok", time, 0,
                      <<IF contains(_times, time) THEN 1 ELSE 0>>, NoSet)
    /\ pre_times' = _times
    /\ pre_values' = _values
    /\ NoContainerReturned
    /\ UNCHANGED <<built, _times, _values, ctor_len, lzvars>>

\* list(ts): a fresh walk over the values
Iterate ==
    /\ built
    /\ last' = Call("iter", "ok", 0, 0, _values, NoSet)
    /\ pre_times' = _times
    /\ pre_values' = _values
    /\ NoContainerReturned
    /\ UNCHANGED <<built, _times, _values, ctor_len, lzvars>>

\* ts.interpolate(qs)
Interpolate ==
    /\ built
    /\ \E qs \in QuerySeqs :
         LET r == interpolate(_times, _values, qs)
         IN  /\ query' = qs
             /\ out_built' = (r.status = "ok")
             /\ out_times' = r.times
             /\ out_values' = r.values
             /\ last' = Call("interpolate", r.status, 0, 0, <<>>, NoSet)
    /\ pre_times' = _times
    /\ pre_values' = _values
    /\ UNCHANGED <<built, _times, _values, ctor_len, lzvars>>

(***************************************************************************)
(* LazyOperation. Three nodes, each of which may hold the next one among   *)
(* its arguments: outer -> nested -> inner. An argument is a plain value   *)
(* or a node; kwargs is the keyword mapping in its insertion order.        *)
(***************************************************************************)
NodeIds == {"outer", "nested", "inner"}
Below(n) == IF n = "outer" THEN {"nested"} ELSE IF n = "nested" THEN {"inner"} ELSE {}

Val(x) == [kind |-> "val", val |-> x, node |-> "none"]
Ref(m) == [kind |-> "node", val |-> 0, node |-> m]
ArgsOf(n) == {Val(1)} \cup {Ref(m) : m \in Below(n)}
KwargsOf(n) == {<<>>} \cup {<<[key |-> "k", arg |-> a]>> : a \in ArgsOf(n)}

\* The function a node wraps: the same pure function of the resolved
\* arguments for every node, one that tells argument lists apart.
RECURSIVE horner(_, _)
horner(xs, i) == IF i = 0 THEN 1 ELSE 2 * horner(xs, i - 1) + xs[i]

func(args, kwargs) == horner(args, Len(args)) + 100 * horner(kwargs, Len(kwargs))

\* LazyOperation.__init__: the node as constructed.
LazyOperation(args, kwargs) == [args |-> args, kwargs |-> kwargs]

\* LazyOperation.eval on node n of heap h, with the invocation counts c.
\* Gives the outcome, the result, and the heap and the counts it leaves.
RECURSIVE eval(_, _, _)
RECURSIVE resolve_args(_, _, _, _, _)

\* Lines 13-16: the loop over enumerate(self.__args).
resolve_args(h, c, args, i, arg_list) ==
    IF i > Len(args)
    THEN [status |-> "ok", heap |-> h, calls |-> c, arg_list |-> arg_list]
    ELSE IF args[i].kind = "node"
         THEN LET r == eval(h, c, args[i].node)
              IN  IF r.status # "ok"
                  THEN [status |-> r.status, heap |-> r.heap, calls |-> r.calls,
                        arg_list |-> arg_list]
                  ELSE resolve_args(r.heap, r.calls, args, i + 1,
                                    [arg_list EXCEPT ![i] = Val(r.ret)])
         ELSE resolve_args(h, c, args, i + 1, arg_list)

\* eval that passes the resolved arguments on without storing them.
eval_no_store(h, c, n) ==
    LET r == resolve_args(h, c, h[n].args, 1, h[n].args)
    IN  IF r.status # "ok"
        THEN [status |-> r.status, ret |-> 0, heap |-> r.heap, calls |-> r.calls]
        ELSE IF Len(r.heap[n].kwargs) > 0
             THEN [status |-> "AttributeError", ret |-> 0, heap |-> r.heap,
                   calls |-> r.calls]
             ELSE [status |-> "ok",
                   ret |-> func([i \in 1..Len(r.arg_list) |-> r.arg_list[i].val], <<>>),
                   heap |-> r.heap,
                   calls |-> [r.calls EXCEPT ![n] = @ + 1]]

\* Line 18 stores the resolved arguments in self.__args. Line 21 reads
\* self.__kwarg, an attribute no node has, so the first key of a non-empty
\* self.__kwargs raises AttributeError.
eval(h, c, n) ==
    LET r == resolve_args(h, c, h[n].args, 1, h[n].args)
    IN  IF r.status # "ok"
        THEN [status |-> r.status, ret |-> 0, heap |-> r.heap, calls |-> r.calls]
        ELSE LET h2 == [r.heap EXCEPT ![n].args = r.arg_list]
             IN  IF Len(h2[n].kwargs) > 0
                 THEN [status |-> "AttributeError", ret |-> 0, heap |-> h2,
                       calls |-> r.calls]
                 ELSE [status |-> "ok",
                       ret |-> func([i \in 1..Len(h2[n].args) |-> h2[n].args[i].val], <<>>),
                       heap |-> h2,
                       calls |-> [r.calls EXCEPT ![n] = @ + 1]]

LazyInit ==
    /\ nodes0 \in {h \in [NodeIds -> [args : SeqsUpTo({Val(1), Ref("nested"), Ref("inner")}, MaxArgs),
                                      kwargs : KwargsOf("outer") \cup KwargsOf("nested")]] :
                    \A n \in NodeIds :
                      /\ \A i \in 1..Len(h[n].args) : h[n].args[i] \in ArgsOf(n)
                      /\ h[n].kwargs \in KwargsOf(n)
                      /\ h[n] = LazyOperation(h[n].args, h[n].kwargs)}
    /\ nodes = nodes0
    /\ calls = [n \in NodeIds |-> 0]
    /\ evals = [n \in NodeIds |-> 0]
    /\ lz = [node |-> "none", status |-> "none", ret |-> 0]

LazyIdle ==
    /\ nodes0 = [n \in NodeIds |-> LazyOperation(<<>>, <<>>)]
    /\ nodes = nodes0
    /\ calls = [n \in NodeIds |-> 0]
    /\ evals = [n \in NodeIds |-> 0]
    /\ lz = [node |-> "none", status |-> "none", ret |-> 0]

\* node.eval(), called by the program on any of the nodes.
Eval ==
    /\ evals["outer"] + evals["nested"] + evals["inner"] < MaxEvals
    /\ \E n \in NodeIds :
         LET r == eval(nodes, calls, n)
         IN  /\ nodes' = r.heap
             /\ calls' = r.calls
             /\ evals' = [evals EXCEPT ![n] = @ + 1]
             /\ lz' = [node |-> n, status |-> r.status, ret |-> r.ret]
    /\ UNCHANGED <<nodes0, tsvars>>

(***************************************************************************)
(* Spec: one container and the calls on it. LazySpec: three nodes and the  *)
(* calls of eval() on them.                                                *)
(***************************************************************************)
Init == TSInit /\ LazyIdle

Next == Construct \/ Size \/ Get \/ Set \/ Contains \/ Iterate \/ Interpolate

Spec == Init /\ [][Next]_vars

LazyStart == TSInit /\ LazyInit

LazyNext == Eval

LazySpec == LazyStart /\ [][LazyNext]_vars


(***************************************************************************)
(* Properties of the container.                                            *)
(***************************************************************************)
Ascending(s) == \A i \in 1..(Len(s) - 1) : s[i] <= s[i + 1]
StrictlyAscending(s) == \A i \in 1..(Len(s) - 1) : s[i] < s[i + 1]
Matches(times, t) == {i \in 1..Len(times) : times[i] = t}
FirstMatch(times, t) == CHOOSE i \in Matches(times, t) : \A j \in Matches(times, t) : i <= j

C2_GetFirstMatch ==
    last.op = "getitem" =>
        IF Matches(_times, last.t) = {}
        THEN last.status = "ValueError"
        ELSE last.status = "ok" /\ last.ret = <<_values[FirstMatch(_times, last.t)]>>

C2_Witness ==
    /\ last.op = "getitem"
    /\ last.status = "ok"
    /\ \E i, j \in Matches(_times, last.t) : i < j /\ _values[i] # _values[j]

\* C3: a constructor call with len(times) # len(values) raises and leaves no
\* container; a constructed container always has as many values as times,
\* len() of it is the length given to the constructor, and so has every
\* container interpolate returns (one value per query time).
C3_LengthsAgree ==
    /\ (last.op = "init" /\ last.t # last.v) => (last.status = "AssertionError" /\ ~built)
    /\ built => (Len(_times) = Len(_values) /\ len(_times) = ctor_len)
    /\ last.op = "len" => last.ret = <<ctor_len>>
    /\ out_built => (Len(out_times) = Len(out_values) /\ len(out_times) = Len(query))

C3_Witness ==
    /\ last.op = "interpolate"
    /\ out_built
    /\ Len(query) = 2
    /\ Len(_times) = MaxLen
    /\ \E i \in 1..Len(_values) : _values[i] # 0

C3_WitnessRejected ==
    last.op = "init" /\ last.status = "AssertionError" /\ last.t # last.v

\* C4: on a non-empty container with ascending times, interpolate gives the
\* first stored value for a query time below the first stored time and the
\* last stored value for a query time at or above the last stored time, and
\* the container it returns has the query times, in their order, as times.
OutOfRange(q) == q < _times[1] \/ q >= _times[Len(_times)]

C4_FlatEnds ==
    (last.op = "interpolate" /\ Len(_times) > 0 /\ Ascending(_times)) =>
        /\ (\A i \in 1..Len(query) : OutOfRange(query[i])) => last.status = "ok"
        /\ last.status = "ok" =>
             /\ out_built
             /\ out_times = query
             /\ \A i \in 1..Len(query) :
                  /\ query[i] < _times[1] => RatEq(out_values[i], FromInt(_values[1]))
                  /\ query[i] >= _times[Len(_times)] =>
                       RatEq(out_values[i], FromInt(_values[Len(_values)]))

C4_Witness ==
    /\ last.op = "interpolate"
    /\ last.status = "ok"
    /\ Len(_times) >= 2
    /\ StrictlyAscending(_times)
    /\ _values[1] # _values[Len(_values)]
    /\ Len(query) = 2
    /\ query[1] >= _times[Len(_times)]
    /\ query[2] < _times[1]

\* C5: on a container with ascending times, interpolate([t]) for a stored
\* time t succeeds and gives exactly the value stored at t, whatever the
\* neighbouring values are.
C5_StoredTimeExact ==
    (/\ last.op = "interpolate"
     /\ StrictlyAscending(_times)
     /\ Len(query) = 1
     /\ Matches(_times, query[1]) # {})
        => /\ last.status = "ok"
           /\ RatEq(out_values[1], FromInt(_values[FirstMatch(_times, query[1])]))

\* C6: on a container with strictly ascending times, for a query time t with
\* times[left] <= t < times[right] and values[right] # values[left], the
\* value interpolate computes, values[left] + (t - times[left]) / (time_delta
\* / value_delta), is values[left] + (t - times[left]) * value_delta /
\* time_delta.
Standard(left, t) ==
    LET time_delta == _times[left + 1] - _times[left]
        value_delta == _values[left + 1] - _values[left]
    IN  [n |-> _values[left] * time_delta + (t - _times[left]) * value_delta,
         d |-> time_delta]

Interior(left, t) ==
    /\ _times[left] <= t
    /\ t < _times[left + 1]
    /\ _values[left + 1] # _values[left]

C6_InvertedSlopeIsLinear ==
    (last.op = "interpolate" /\ last.status = "ok" /\ StrictlyAscending(_times)) =>
        \A i \in 1..Len(query) : \A left \in 1..(Len(_times) - 1) :
            Interior(left, query[i]) => RatEq(out_values[i], Standard(left, query[i]))

C6_Witness ==
    /\ last.op = "interpolate"
    /\ last.status = "ok"
    /\ StrictlyAscending(_times)
    /\ \E i \in 1..Len(query) : \E left \in 1..(Len(_times) - 1) :
         /\ Interior(left, query[i])
         /\ _times[left] < query[i]
         /\ _values[left + 1] < _values[left]

\* C9: ts[t] = v on a stored time t writes v at every position whose time is
\* t, and leaves the times and the value at every other position as they were.
C9_SetAllMatches ==
    (last.op = "setitem" /\ Matches(pre_times, last.t) # {}) =>
        /\ last.status = "ok"
        /\ _times = pre_times
        /\ Len(_values) = Len(pre_values)
        /\ \A i \in 1..Len(_values) :
             IF _times[i] = last.t THEN _values[i] = last.v
                                   ELSE _values[i] = pre_values[i]

C9_Witness ==
    /\ last.op = "setitem"
    /\ last.status = "ok"
    /\ \E i, j, k \in 1..Len(_times) :
         /\ i < j
         /\ _times[i] = last.t
         /\ _times[j] = last.t
         /\ pre_values[j] # last.v
         /\ _times[k] # last.t
         /\ _values[k] # last.v

\* C10: ts[t] = v with a time t that is not stored raises ValueError and
\* leaves times and values as they were; ts[s] straight after it gives, for
\* a stored time s, what it gave before.
C10_FailedSetKeepsAll ==
    /\ (last.op = "setitem" /\ Matches(pre_times, last.t) = {}) =>
         /\ last.status = "ValueError"
         /\ _times = pre_times
         /\ _values = pre_values
    /\ (last.op = "getitem" /\ last.after.status = "ValueError") =>
         /\ last.ret = last.after.before
         /\ Matches(_times, last.t) # {} => last.status = "ok"

C10_Witness ==
    /\ last.op = "getitem"
    /\ last.after.status = "ValueError"
    /\ last.status = "ok"
    /\ \E i \in 1..Len(_values) : _values[i] # last.after.v


(***************************************************************************)
(* Properties of LazyOperation.                                            *)
(***************************************************************************)
\* What a node is to give: func applied to its arguments, each nested node
\* replaced by what it is to give.
RECURSIVE Expected(_, _)
Resolved(h, a) == IF a.kind = "node" THEN Expected(h, a.node) ELSE a.val
Expected(h, n) ==
    func([i \in 1..Len(h[n].args) |-> Resolved(h, h[n].args[i])],
         [i \in 1..Len(h[n].kwargs) |-> Resolved(h, h[n].kwargs[i].arg)])

Occurrences(args, m) == Cardinality({i \in 1..Len(args) : args[i] = Ref(m)})
NoKwargs == \A n \in NodeIds : nodes0[n].kwargs = <<>>
\* Evaluating the nested node raises nothing.
NestedRuns ==
    /\ nodes0["nested"].kwargs = <<>>
    /\ Occurrences(nodes0["nested"].args, "inner") > 0 => nodes0["inner"].kwargs = <<>>

C8_KwargsResolved ==
    (lz.node # "none" /\ Len(nodes0[lz.node].kwargs) >= 1)
        => (lz.status = "ok" /\ lz.ret = Expected(nodes0, lz.node))

=============================================================================
